---- MODULE Spec2Model ----
(***************************************************************************)
(* Weighted log-ingest distributor with per-analyzer circuit breakers.     *)
(*                                                                         *)
(*   services/distributor/app/simple_circuit_breaker.py  the breaker       *)
(*   services/distributor/app/main.py                    the dispatcher    *)
(*   services/analyzer/server.py                         the admission gate*)
(*                                                                         *)
(* Time is time.monotonic() counted in whole ticks.  Log output is not     *)
(* part of the state.                                                      *)
(***************************************************************************)
EXTENDS Integers, Sequences, FiniteSets, TLC

VARIABLES
    now,            \* time.monotonic()
    analyzer_hosts, \* ctx.analyzer_hosts: the configured names, in dict order
    breakers,       \* ctx.circuit_breakers: name -> SimpleCircuitBreaker fields
    weight_map,     \* ctx.weight_map: name -> weight (a partial map)
    active,         \* the analyzers' global `active` flags
    success_total,  \* SUCCESS counter
    failure_total,  \* FAILURE counter
    pc,             \* per ingest call: where the coroutine stands
    packet,         \* per ingest call: the number of messages of its packet
    tried,          \* per ingest call: the local set `tried`
    target,         \* per ingest call: the local `target`
    response,       \* per ingest call: the HTTP answer
    sink,           \* per ingest call: who logged how many messages of its packet
    log,            \* history: per ingest call, what it did, in order
    last,           \* history: the last breaker operation called directly
    hist,           \* history: per breaker, counts taken from the calls alone
    DEFAULT_ANALYZER_TO_WEIGHTS, \* parse_weights(DEFAULT_WEIGHTS), fixed at import
    WEIGHTS_COL,    \* the collection control.weights of the config store
    watcher,        \* the task poll_weights_updates: running, or ended by an error
    polled,         \* history: what the watcher's last read returned, and the map before
    posted,         \* history: per ingest call, the body posted and the state it met
    calls,          \* history: the calls made one after the other, once answered
    lock,           \* self.lock of the breaker A: the thread that holds it, or free
    threads,        \* per thread: the breaker method it runs and where it stands
    stubs           \* ctx.stubs: name -> the address its channel is connected to

vars == <<now, analyzer_hosts, breakers, weight_map, active, success_total,
          failure_total, pc, packet, tried, target, response, sink,
          log, last, hist, DEFAULT_ANALYZER_TO_WEIGHTS, WEIGHTS_COL, watcher,
          polled, posted, calls, lock, threads, stubs>>

watch_vars == <<DEFAULT_ANALYZER_TO_WEIGHTS, WEIGHTS_COL, watcher, polled>>

post_vars == <<posted, calls>>

thread_vars == <<lock, threads>>

-----------------------------------------------------------------------------
(* Bounds of the model *)

MaxTime == 2

MaxFailureThreshold == 2

MaxRecoveryTimeout == 2

MaxHalfOpenThreshold == 2

MaxStreak == 3


-----------------------------------------------------------------------------
(* BreakerState *)

CLOSED == "closed"

OPEN == "open"

HALF_OPEN == "half_open"

BreakerState == {CLOSED, OPEN, HALF_OPEN}

\* opened_at: float | None
None == -1

Names == {"A", "B"}

\* the ingest calls, which may overlap in any way
Calls == {"c1", "c2"}

\* len(packet.messages) of the packets the two requests carry
PacketSizes == [c \in Calls |-> IF c = "c1" THEN 1 ELSE 2]

\* SimpleCircuitBreaker.__init__ after its three checks
SimpleCircuitBreaker(name, failure_threshold, recovery_timeout, half_open_success_threshold) ==
    [name |-> name,
     failure_threshold |-> failure_threshold,
     recovery_timeout |-> recovery_timeout,
     half_open_success_threshold |-> half_open_success_threshold,
     state |-> CLOSED,
     consecutive_failures |-> 0,
     half_open_successes |-> 0,
     opened_at |-> None]

ValueError(msg) == [raised |-> "ValueError", msg |-> msg]

SimpleCircuitBreaker_init_lax(name, failure_threshold, recovery_timeout, half_open_success_threshold) ==
    IF failure_threshold <= 0
    THEN ValueError("failure_threshold must be > 0")
    ELSE IF half_open_success_threshold <= 0
    THEN ValueError("half_open_success_threshold must be > 0")
    ELSE [raised |-> "none",
          self |-> SimpleCircuitBreaker(name, failure_threshold, recovery_timeout,
                                        half_open_success_threshold)]

\* SimpleCircuitBreaker.__init__: the error it raises, or the breaker
SimpleCircuitBreaker_init(name, failure_threshold, recovery_timeout, half_open_success_threshold) ==
    IF failure_threshold <= 0
    THEN ValueError("failure_threshold must be > 0")
    ELSE IF recovery_timeout <= 0
    THEN ValueError("recovery_timeout must be > 0")
    ELSE IF half_open_success_threshold <= 0
    THEN ValueError("half_open_success_threshold must be > 0")
    ELSE [raised |-> "none",
          self |-> SimpleCircuitBreaker(name, failure_threshold, recovery_timeout,
                                        half_open_success_threshold)]

transition(self, new_state) ==
    [self EXCEPT !.state = new_state]

trip_open_keep(self, t) ==
    transition([self EXCEPT !.opened_at = t,
                            !.consecutive_failures = 0], OPEN)

trip_open(self, t) ==
    transition([self EXCEPT !.opened_at = t,
                            !.consecutive_failures = 0,
                            !.half_open_successes = 0], OPEN)

transition_to_closed_keep(self) ==
    transition([self EXCEPT !.opened_at = None,
                            !.half_open_successes = 0], CLOSED)

transition_to_closed(self) ==
    transition([self EXCEPT !.opened_at = None,
                            !.consecutive_failures = 0,
                            !.half_open_successes = 0], CLOSED)

\* allow_request at time t: the value returned and the breaker afterwards
allow_request_early(self, t) ==
    IF self.state = OPEN
    THEN IF self.opened_at # None /\ (t - self.opened_at) + 1 >= self.recovery_timeout
         THEN [ret |-> TRUE,
               self |-> [transition(self, HALF_OPEN) EXCEPT !.half_open_successes = 0]]
         ELSE [ret |-> FALSE, self |-> self]
    ELSE [ret |-> TRUE, self |-> self]

allow_request_touch(self, t) ==
    IF self.state = OPEN
    THEN IF self.opened_at # None /\ (t - self.opened_at) >= self.recovery_timeout
         THEN [ret |-> TRUE,
               self |-> [transition(self, HALF_OPEN) EXCEPT !.half_open_successes = 0]]
         ELSE [ret |-> FALSE, self |-> [self EXCEPT !.opened_at = t]]
    ELSE [ret |-> TRUE, self |-> self]

allow_request_stuck(self, t) ==
    IF self.state = OPEN
    THEN [ret |-> FALSE, self |-> self]
    ELSE [ret |-> TRUE, self |-> self]

allow_request(self, t) ==
    IF self.state = OPEN
    THEN IF self.opened_at # None /\ (t - self.opened_at) >= self.recovery_timeout
         THEN [ret |-> TRUE,
               self |-> [transition(self, HALF_OPEN) EXCEPT !.half_open_successes = 0]]
         ELSE [ret |-> FALSE, self |-> self]
    ELSE [ret |-> TRUE, self |-> self]

record_success_late(self) ==
    IF self.state = HALF_OPEN
    THEN LET s == [self EXCEPT !.half_open_successes = @ + 1]
         IN  IF s.half_open_successes > s.half_open_success_threshold
             THEN transition_to_closed(s)
             ELSE s
    ELSE [self EXCEPT !.consecutive_failures = 0]

record_success_eager(self) ==
    IF self.state = HALF_OPEN
    THEN transition_to_closed([self EXCEPT !.half_open_successes = @ + 1])
    ELSE [self EXCEPT !.consecutive_failures = 0]

record_success_healing(self) ==
    IF self.state = HALF_OPEN
    THEN LET s == [self EXCEPT !.half_open_successes = @ + 1]
         IN  IF s.half_open_successes >= s.half_open_success_threshold
             THEN transition_to_closed(s)
             ELSE s
    ELSE transition_to_closed(self)

record_success(self) ==
    IF self.state = HALF_OPEN
    THEN LET s == [self EXCEPT !.half_open_successes = @ + 1]
         IN  IF s.half_open_successes >= s.half_open_success_threshold
             THEN transition_to_closed(s)
             ELSE s
    ELSE [self EXCEPT !.consecutive_failures = 0]

record_failure_late(self, t) ==
    IF self.state = HALF_OPEN
    THEN trip_open(self, t)
    ELSE LET s == [self EXCEPT !.consecutive_failures = @ + 1]
         IN  IF s.state = CLOSED /\ s.consecutive_failures > s.failure_threshold
             THEN trip_open(s, t)
             ELSE s

record_failure_counted(self, t) ==
    LET s == [self EXCEPT !.consecutive_failures = @ + 1]
    IN  IF s.state # OPEN /\ s.consecutive_failures >= s.failure_threshold
        THEN trip_open(s, t)
        ELSE s

record_failure(self, t) ==
    IF self.state = HALF_OPEN
    THEN trip_open(self, t)
    ELSE LET s == [self EXCEPT !.consecutive_failures = @ + 1]
         IN  IF s.state = CLOSED /\ s.consecutive_failures >= s.failure_threshold
             THEN trip_open(s, t)
             ELSE s

snapshot(self, t) ==
    [name |-> self.name,
     state |-> self.state,
     consecutive_failures |-> self.consecutive_failures,
     half_open_successes |-> self.half_open_successes,
     opened_for_secs |-> IF self.opened_at = None THEN -1 ELSE t - self.opened_at,
     failure_threshold |-> self.failure_threshold,
     recovery_timeout |-> self.recovery_timeout,
     half_open_success_threshold |-> self.half_open_success_threshold]

-----------------------------------------------------------------------------
(* Selector *)

get(W, k, default) ==
    IF k \in DOMAIN W THEN W[k] ELSE default

RECURSIVE sum(_)
sum(xs) ==
    IF Len(xs) = 0 THEN 0 ELSE xs[1] + sum(Tail(xs))

\* itertools.accumulate
accumulate(xs) ==
    [i \in 1..Len(xs) |-> sum(SubSeq(xs, 1, i))]

\* bisect.bisect_right(a, x, lo, hi) over the 0-based list a
RECURSIVE bisect(_, _, _, _)
bisect(a, x, lo, hi) ==
    IF lo < hi
    THEN LET mid == (lo + hi) \div 2
         IN  IF x < a[mid + 1] THEN bisect(a, x, lo, mid) ELSE bisect(a, x, mid + 1, hi)
    ELSE lo

\* random.choices(population, weights=weights, k=1)[0]: every value it can
\* return, one for each value that random() * total can take
random_choices(population, weights) ==
    LET n == Len(population)
        cum_weights == accumulate(weights)
        total == cum_weights[n]
    IN  {population[bisect(cum_weights, x, 0, n - 1) + 1] : x \in 0..(total - 1)}

weighted_analyzer_choice_even(candidates, W) ==
    random_choices(candidates, [i \in 1..Len(candidates) |-> 1])

weighted_analyzer_choice(candidates, W) ==
    LET current_weights == [i \in 1..Len(candidates) |-> get(W, candidates[i], 0)]
        sum_weights == sum(current_weights)
    IN  IF sum_weights <= 0
        THEN random_choices(candidates, [i \in 1..Len(candidates) |-> 1])
        ELSE random_choices(candidates, current_weights)

-----------------------------------------------------------------------------
(* State after startup() *)

\* init_analyzer_ports: ANALYZERS names no, one or two analyzers
HostConfigs == {<< >>, <<"A">>, <<"A", "B">>}

\* DEFAULT_WEIGHTS: no weights, or all weight on A
DefaultWeightMaps == {<< >>, [n \in Names |-> IF n = "A" THEN 1 ELSE 0]}

\* dict.update
update(W, D) ==
    [k \in (DOMAIN W) \cup (DOMAIN D) |-> IF k \in DOMAIN D THEN D[k] ELSE W[k]]

keys(hosts) == {hosts[i] : i \in 1..Len(hosts)}

\* init_grpc: a channel and a stub for every entry of analyzer_hosts
init_grpc(hosts) ==
    [n \in keys(hosts) |-> n]

init_circuit_breakers(hosts, ft, rt, hst) ==
    [n \in keys(hosts) |-> SimpleCircuitBreaker(n, ft, rt, hst)]

NoResponse == [status |-> 0]

NoLast == [op |-> "none"]

\* the CB_* settings the breaker is exercised with when called directly
BreakerConfigs ==
    [failure_threshold : 1..MaxFailureThreshold,
     recovery_timeout : 1..MaxRecoveryTimeout,
     half_open_success_threshold : 1..MaxHalfOpenThreshold]

\* the CB_* settings the distributor is started with
DeployedConfigs ==
    {[failure_threshold |-> 1, recovery_timeout |-> 1, half_open_success_threshold |-> 1],
     [failure_threshold |-> 1, recovery_timeout |-> 2, half_open_success_threshold |-> 2],
     [failure_threshold |-> 2, recovery_timeout |-> 1, half_open_success_threshold |-> 1]}

NoPoll == [read |-> "none"]

NoPost == [sent |-> FALSE]

\* the threads that call the methods of one breaker
Threads == {"t1", "t2"}

\* a thread that runs no method of the breaker
Idle ==
    [op |-> "idle", pc |-> "idle", todo |-> << >>, got |-> << >>, seen |-> {},
     entered |-> 0, pre |-> << >>]

\* startup() with DEFAULT_WEIGHTS parsed to `defaults`
StartupWith(hosts, cb, defaults) ==
    /\ DEFAULT_ANALYZER_TO_WEIGHTS = defaults
    /\ WEIGHTS_COL = << >>
    /\ watcher = "polling"
    /\ polled = NoPoll
    /\ posted = [c \in Calls |-> NoPost]
    /\ calls = << >>
    /\ lock = "free"
    /\ threads = [t \in Threads |-> Idle]
    /\ now = 0
    /\ analyzer_hosts = hosts
    /\ stubs = init_grpc(hosts)
    /\ breakers = init_circuit_breakers(hosts, cb.failure_threshold, cb.recovery_timeout,
                                        cb.half_open_success_threshold)
    /\ weight_map = update(<< >>, defaults)
    /\ active = [n \in keys(hosts) |-> TRUE]
    /\ success_total = 0
    /\ failure_total = 0
    /\ pc = [c \in Calls |-> "idle"]
    /\ packet = [c \in Calls |-> 0]
    /\ tried = [c \in Calls |-> {}]
    /\ target = [c \in Calls |-> ""]
    /\ response = [c \in Calls |-> NoResponse]
    /\ sink = [c \in Calls |-> {}]
    /\ log = [c \in Calls |-> << >>]
    /\ last = NoLast
    /\ hist = [n \in keys(hosts) |->
                 [streak |-> 0, half_open_successes |-> 0, tripped_at |-> None]]

Startup(hosts, cb) ==
    \E defaults \in DefaultWeightMaps : StartupWith(hosts, cb, defaults)

Init ==
    \E hosts \in HostConfigs, cb \in DeployedConfigs : Startup(hosts, cb)

dispatch_vars == <<analyzer_hosts, stubs, weight_map, active, success_total, failure_total,
                   pc, packet, tried, target, response, sink, log>>

\* the clock advances
Tick ==
    /\ now < MaxTime
    /\ now' = now + 1
    /\ UNCHANGED <<breakers, dispatch_vars, last, hist, watch_vars, post_vars, thread_vars>>

-----------------------------------------------------------------------------
(* The breaker called directly, one call after the other, as its tests do *)

\* what the calls alone tell: failures in a row, successes since the breaker
\* became half-open, and when it last became open
note(h, op, pre, post, t) ==
    [streak |-> CASE op = "record_failure" -> h.streak + 1
                  [] op = "record_success" -> 0
                  [] OTHER -> h.streak,
     half_open_successes |->
         CASE pre.state # HALF_OPEN /\ post.state = HALF_OPEN -> 0
           [] op = "record_success" /\ pre.state = HALF_OPEN -> h.half_open_successes + 1
           [] OTHER -> h.half_open_successes,
     tripped_at |-> IF pre.state # OPEN /\ post.state = OPEN THEN t ELSE h.tripped_at]

Called(op, a, ret, post) ==
    /\ breakers' = [breakers EXCEPT ![a] = post]
    /\ last' = [op |-> op, name |-> a, ret |-> ret, pre |-> breakers[a], at |-> now,
                was |-> hist[a]]
    /\ hist' = [hist EXCEPT ![a] = note(hist[a], op, breakers[a], post, now)]
    /\ UNCHANGED <<now, dispatch_vars, watch_vars, post_vars, thread_vars>>

AllowRequest(a) ==
    LET r == allow_request(breakers[a], now)
    IN  Called("allow_request", a, r.ret, r.self)

RecordSuccess(a) ==
    Called("record_success", a, FALSE, record_success(breakers[a]))

RecordFailure(a) ==
    /\ hist[a].streak < MaxStreak
    /\ Called("record_failure", a, FALSE, record_failure(breakers[a], now))

Snapshot_promoting(a) ==
    Called("snapshot", a, snapshot(breakers[a], now), allow_request(breakers[a], now).self)

\* snapshot(): the dict it returns; the breaker is as it was
Snapshot(a) ==
    Called("snapshot", a, snapshot(breakers[a], now), breakers[a])

\* the body GET /health returns
health ==
    [ok |-> TRUE,
     analyzers |-> analyzer_hosts,
     weights |-> weight_map,
     breakers |-> [n \in DOMAIN breakers |-> snapshot(breakers[n], now)]]

\* GET /health
Health ==
    /\ last' = [op |-> "health", ret |-> health, at |-> now]
    /\ UNCHANGED <<now, breakers, dispatch_vars, hist, watch_vars, post_vars, thread_vars>>

NextBreaker ==
    \/ Tick
    \/ \E a \in DOMAIN breakers : AllowRequest(a)
    \/ \E a \in DOMAIN breakers : RecordSuccess(a)
    \/ \E a \in DOMAIN breakers : RecordFailure(a)
    \/ \E a \in DOMAIN breakers : Snapshot(a)
    \/ Health

\* one breaker under test
InitBreaker ==
    \E cb \in BreakerConfigs : Startup(<<"A">>, cb)

SpecBreaker == InitBreaker /\ [][NextBreaker]_vars

\* the values the constructor is called with, non-positive ones among them
Settings(max) == (-1)..max

\* SimpleCircuitBreaker(name, ...) is called: it raises, or there is one
\* more breaker
Construct(name, ft, rt, hst) ==
    /\ name \notin DOMAIN breakers
    /\ LET r == SimpleCircuitBreaker_init(name, ft, rt, hst)
       IN  /\ last' = [op |-> "__init__", name |-> name, raised |-> r.raised,
                       args |-> <<ft, rt, hst>>, at |-> now]
           /\ IF r.raised = "none"
              THEN /\ breakers' = [n \in DOMAIN breakers \cup {name} |->
                                     IF n = name THEN r.self ELSE breakers[n]]
                   /\ hist' = [n \in DOMAIN hist \cup {name} |->
                                 IF n = name
                                 THEN [streak |-> 0, half_open_successes |-> 0,
                                       tripped_at |-> None]
                                 ELSE hist[n]]
              ELSE UNCHANGED <<breakers, hist>>
    /\ UNCHANGED <<now, dispatch_vars, watch_vars, post_vars, thread_vars>>

NextConstruct ==
    \/ \E name \in Names :
          \E ft \in Settings(MaxFailureThreshold), rt \in Settings(MaxRecoveryTimeout),
             hst \in Settings(MaxHalfOpenThreshold) : Construct(name, ft, rt, hst)
    \/ \E a \in DOMAIN breakers : AllowRequest(a)

\* no breaker is constructed yet
InitConstruct ==
    \E cb \in DeployedConfigs : StartupWith(<< >>, cb, << >>)

SpecConstruct == InitConstruct /\ [][NextConstruct]_vars

-----------------------------------------------------------------------------
(* The breaker A called from several threads: what self.lock does *)

ThreadOps == {"allow_request", "record_success", "record_failure", "snapshot"}

\* the values the breaker takes while trip_open runs, one assignment after
\* the other
trip_open_writes(self, t) ==
    LET s1 == [self EXCEPT !.opened_at = t]
        s2 == [s1 EXCEPT !.consecutive_failures = 0]
        s3 == [s2 EXCEPT !.half_open_successes = 0]
    IN  <<s1, s2, s3, transition(s3, OPEN)>>

transition_to_closed_writes(self) ==
    LET s1 == [self EXCEPT !.opened_at = None]
        s2 == [s1 EXCEPT !.consecutive_failures = 0]
        s3 == [s2 EXCEPT !.half_open_successes = 0]
    IN  <<s1, s2, s3, transition(s3, CLOSED)>>

allow_request_writes(self, t) ==
    IF self.state = OPEN /\ self.opened_at # None
          /\ (t - self.opened_at) >= self.recovery_timeout
    THEN LET s1 == transition(self, HALF_OPEN)
         IN  <<s1, [s1 EXCEPT !.half_open_successes = 0]>>
    ELSE << >>

record_success_writes(self) ==
    IF self.state = HALF_OPEN
    THEN LET s == [self EXCEPT !.half_open_successes = @ + 1]
         IN  IF s.half_open_successes >= s.half_open_success_threshold
             THEN <<s>> \o transition_to_closed_writes(s)
             ELSE <<s>>
    ELSE <<[self EXCEPT !.consecutive_failures = 0]>>

record_failure_writes(self, t) ==
    IF self.state = HALF_OPEN
    THEN trip_open_writes(self, t)
    ELSE LET s == [self EXCEPT !.consecutive_failures = @ + 1]
         IN  IF s.state = CLOSED /\ s.consecutive_failures >= s.failure_threshold
             THEN <<s>> \o trip_open_writes(s, t)
             ELSE <<s>>

\* the assignments of a method's locked section, entered at time t
writes(op, self, t) ==
    CASE op = "allow_request" -> allow_request_writes(self, t)
      [] op = "record_success" -> record_success_writes(self)
      [] op = "record_failure" -> record_failure_writes(self, t)

\* the breaker as the method leaves it when it runs alone
alone(op, self, t) ==
    CASE op = "allow_request" -> allow_request(self, t).self
      [] op = "record_success" -> record_success(self)
      [] op = "record_failure" -> record_failure(self, t)

\* the fields snapshot() reads, in the order of its dict
fields == <<"state", "consecutive_failures", "half_open_successes", "opened_for_secs">>

\* one read of snapshot(), at time t
read_field(field, self, t) ==
    CASE field = "state" -> self.state
      [] field = "consecutive_failures" -> self.consecutive_failures
      [] field = "half_open_successes" -> self.half_open_successes
      [] field = "opened_for_secs" ->
             IF self.opened_at = None THEN -1 ELSE t - self.opened_at

\* the dict snapshot() returns, from what it read
returned(got) ==
    [name |-> breakers["A"].name,
     state |-> got[1],
     consecutive_failures |-> got[2],
     half_open_successes |-> got[3],
     opened_for_secs |-> got[4],
     failure_threshold |-> breakers["A"].failure_threshold,
     recovery_timeout |-> breakers["A"].recovery_timeout,
     half_open_success_threshold |-> breakers["A"].half_open_success_threshold]

\* the breaker as the last complete locked section left it
committed ==
    IF lock \in Threads /\ threads[lock].pc = "writing"
    THEN threads[lock].pre
    ELSE breakers["A"]

\* a thread calls a method of the breaker; record_failure first logs a
\* snapshot()
Begin(t, op) ==
    /\ threads[t].pc = "idle"
    /\ op = "record_failure" => breakers["A"].consecutive_failures < MaxStreak
    /\ threads' = [threads EXCEPT ![t] =
           [Idle EXCEPT !.op = op,
                        !.pc = IF op \in {"snapshot", "record_failure"}
                               THEN "enter" ELSE "acquire"]]
    /\ UNCHANGED lock

snapshot_call_unlocked(t) ==
    \/ /\ threads[t].pc = "enter"
       /\ threads' = [threads EXCEPT ![t].pc = "reading", ![t].seen = {committed},
                                     ![t].entered = now]
       /\ UNCHANGED lock
    \/ /\ threads[t].pc = "reading"
       /\ Len(threads[t].got) < Len(fields)
       /\ threads' = [threads EXCEPT ![t].got =
              Append(@, read_field(fields[Len(@) + 1], breakers["A"], now))]
       /\ UNCHANGED lock
    \/ /\ threads[t].pc = "reading"
       /\ Len(threads[t].got) = Len(fields)
       /\ threads' = [threads EXCEPT ![t].pc =
              IF threads[t].op = "record_failure" THEN "acquire" ELSE "return"]
       /\ UNCHANGED lock

\* snapshot(): with self.lock, read the fields one after the other, return
snapshot_call(t) ==
    \/ /\ threads[t].pc = "enter"
       /\ lock = "free"
       /\ lock' = t
       /\ threads' = [threads EXCEPT ![t].pc = "reading", ![t].seen = {committed},
                                     ![t].entered = now]
    \/ /\ threads[t].pc = "reading"
       /\ Len(threads[t].got) < Len(fields)
       /\ threads' = [threads EXCEPT ![t].got =
              Append(@, read_field(fields[Len(@) + 1], breakers["A"], now))]
       /\ UNCHANGED lock
    \/ /\ threads[t].pc = "reading"
       /\ Len(threads[t].got) = Len(fields)
       /\ lock' = "free"
       /\ threads' = [threads EXCEPT ![t].pc =
              IF threads[t].op = "record_failure" THEN "acquire" ELSE "return"]

\* with self.lock: of allow_request, record_success and record_failure
Acquire(t) ==
    /\ threads[t].pc = "acquire"
    /\ lock = "free"
    /\ lock' = t
    /\ threads' = [threads EXCEPT ![t] =
           [Idle EXCEPT !.op = threads[t].op,
                        !.pc = "writing",
                        !.pre = breakers["A"],
                        !.entered = now,
                        !.todo = writes(threads[t].op, breakers["A"], now)]]
    /\ UNCHANGED breakers

\* one assignment to a field of the breaker
Write(t) ==
    /\ threads[t].pc = "writing"
    /\ threads[t].todo # << >>
    /\ breakers' = [breakers EXCEPT !["A"] = Head(threads[t].todo)]
    /\ threads' = [threads EXCEPT ![t].todo = Tail(@)]
    /\ UNCHANGED lock

\* the end of the with block, and the method returns; a snapshot() still
\* reading has one more complete state to its call
Release(t) ==
    /\ threads[t].pc = "writing"
    /\ threads[t].todo = << >>
    /\ lock' = "free"
    /\ threads' = [u \in Threads |->
           IF u = t THEN Idle
           ELSE IF threads[u].pc = "reading"
           THEN [threads[u] EXCEPT !.seen = @ \cup {breakers["A"]}]
           ELSE threads[u]]
    /\ UNCHANGED breakers

\* snapshot() returns its dict
Finish(t) ==
    /\ threads[t].pc = "return"
    /\ threads' = [threads EXCEPT ![t] = Idle]
    /\ UNCHANGED <<lock, breakers>>

thread_frame == <<now, dispatch_vars, last, hist, watch_vars, post_vars>>

NextThreads ==
    \/ Tick
    \/ \E t \in Threads, op \in ThreadOps :
          Begin(t, op) /\ UNCHANGED <<breakers, thread_frame>>
    \/ \E t \in Threads : snapshot_call(t) /\ UNCHANGED <<breakers, thread_frame>>
    \/ \E t \in Threads : Acquire(t) /\ UNCHANGED thread_frame
    \/ \E t \in Threads : Write(t) /\ UNCHANGED thread_frame
    \/ \E t \in Threads : Release(t) /\ UNCHANGED thread_frame
    \/ \E t \in Threads : Finish(t) /\ UNCHANGED thread_frame

\* one breaker, shared by the threads
InitThreads ==
    \E cb \in DeployedConfigs : StartupWith(<<"A">>, cb, << >>)

SpecThreads == InitThreads /\ [][NextThreads]_vars

-----------------------------------------------------------------------------
(* Admission gate: services/analyzer/server.py *)

\* what find_one({"name": ANALYZER_NAME}) can return: no document, a document
\* without the field, a document with the field
NoDoc == << >>

AnalyzerDocs(a) ==
    {NoDoc, [name |-> a], [name |-> a, active |-> TRUE], [name |-> a, active |-> FALSE]}

\* what one round of poll_active reads: find_one raised PyMongoError, or
\* returned a document or None
Reads(a) ==
    {[raised |-> TRUE]} \cup {[raised |-> FALSE, doc |-> d] : d \in AnalyzerDocs(a)}

poll_active_strict(flag, read) ==
    IF read.raised THEN flag ELSE get(read.doc, "active", FALSE)

\* the flag after one round of poll_active
poll_active(flag, read) ==
    IF read.raised THEN flag ELSE get(read.doc, "active", TRUE)

\* poll_active: one round of the loop
PollActive(a, doc) ==
    /\ active' = [active EXCEPT ![a] = poll_active(active[a], [raised |-> FALSE, doc |-> doc])]
    /\ UNCHANGED <<now, analyzer_hosts, stubs, breakers, weight_map, success_total,
                   failure_total, pc, packet, tried, target, response, sink,
                   log, last, hist, watch_vars, post_vars, thread_vars>>

Analyze_ungated(is_active, a, n) ==
    [ok |-> TRUE, logged |-> n,
     ack |-> [accepted |-> TRUE, note |-> [name |-> a, accepted |-> n]]]

\* AnalyzerService.Analyze(request) with the flag as it is at request time:
\* what it answers and how many messages it logs
Analyze(is_active, a, n) ==
    IF ~is_active
    THEN [ok |-> FALSE, logged |-> 0, code |-> "UNAVAILABLE", details |-> a]
    ELSE [ok |-> TRUE, logged |-> n,
          ack |-> [accepted |-> TRUE, note |-> [name |-> a, accepted |-> n]]]

-----------------------------------------------------------------------------
(* Dispatcher: ingest() in services/distributor/app/main.py *)

Event(ev, a) == [ev |-> ev, a |-> a]

\* remaining = [c for c in candidates if c not in tried]
remaining_all(candidates, done) ==
    candidates

remaining(candidates, done) ==
    SelectSeq(candidates, LAMBDA x : x \notin done)

\* while len(tried) < len(candidates)
loop_condition_short(c) ==
    Cardinality(tried[c]) + 1 < Len(analyzer_hosts)

loop_condition(c) ==
    Cardinality(tried[c]) < Len(analyzer_hosts)

\* the call is over and its locals are gone
Return(c) ==
    /\ pc' = [pc EXCEPT ![c] = "done"]
    /\ packet' = [packet EXCEPT ![c] = 0]
    /\ tried' = [tried EXCEPT ![c] = {}]
    /\ target' = [target EXCEPT ![c] = ""]

\* ingest(packet) with a packet of n messages: up to `tried = set()`
ingest(c, n) ==
    /\ pc[c] = "idle"
    /\ sink' = [sink EXCEPT ![c] = {}]
    /\ IF Len(analyzer_hosts) = 0
       THEN /\ response' = [response EXCEPT ![c] =
                   [status |-> 503, detail |-> "analyzer_hosts not yet initialized?"]]
            /\ pc' = [pc EXCEPT ![c] = "done"]
            /\ UNCHANGED packet
       ELSE /\ response' = [response EXCEPT ![c] = NoResponse]
            /\ pc' = [pc EXCEPT ![c] = "loop"]
            /\ packet' = [packet EXCEPT ![c] = n]
    /\ UNCHANGED <<now, analyzer_hosts, stubs, breakers, weight_map, active, success_total,
                   failure_total, tried, target, log, last, hist, watch_vars, thread_vars>>

\* a request with n messages arrives
IngestStart(c, n) ==
    /\ ingest(c, n)
    /\ UNCHANGED post_vars

IngestSelect_counting(c) ==
    /\ pc[c] = "loop"
    /\ loop_condition(c)
    /\ \E t \in weighted_analyzer_choice(remaining(analyzer_hosts, tried[c]), weight_map) :
          LET r == allow_request(breakers[t], now)
          IN  /\ tried' = [tried EXCEPT ![c] = @ \cup {t}]
              /\ target' = [target EXCEPT ![c] = t]
              /\ breakers' = [breakers EXCEPT ![t] = r.self]
              /\ IF r.ret
                 THEN /\ pc' = [pc EXCEPT ![c] = "rpc"]
                      /\ log' = [log EXCEPT ![c] =
                                   @ \o <<Event("select", t), Event("rpc", t)>>]
                      /\ UNCHANGED failure_total
                 ELSE /\ UNCHANGED pc
                      /\ log' = [log EXCEPT ![c] =
                                   @ \o <<Event("select", t), Event("deny", t)>>]
                      /\ failure_total' = failure_total + 1
    /\ UNCHANGED <<now, analyzer_hosts, stubs, weight_map, active, success_total,
                   packet, response, sink, last, hist, watch_vars, post_vars, thread_vars>>

\* one round of the while loop up to the await: select, tried.add, allow_request
IngestSelect(c) ==
    /\ pc[c] = "loop"
    /\ loop_condition(c)
    /\ \E t \in weighted_analyzer_choice(remaining(analyzer_hosts, tried[c]), weight_map) :
          LET r == allow_request(breakers[t], now)
          IN  /\ tried' = [tried EXCEPT ![c] = @ \cup {t}]
              /\ target' = [target EXCEPT ![c] = t]
              /\ breakers' = [breakers EXCEPT ![t] = r.self]
              /\ IF r.ret
                 THEN /\ pc' = [pc EXCEPT ![c] = "rpc"]
                      /\ log' = [log EXCEPT ![c] =
                                   @ \o <<Event("select", t), Event("rpc", t)>>]
                 ELSE /\ UNCHANGED pc
                      /\ log' = [log EXCEPT ![c] =
                                   @ \o <<Event("select", t), Event("deny", t)>>]
    /\ UNCHANGED <<now, analyzer_hosts, stubs, weight_map, active, success_total,
                   failure_total, packet, response, sink, last, hist,
                   watch_vars, post_vars, thread_vars>>

IngestExhausted_counting(c) ==
    /\ pc[c] = "loop"
    /\ ~loop_condition(c)
    /\ response' = [response EXCEPT ![c] =
           [status |-> 503, detail |-> "All analyzers are blocked by circuit breakers."]]
    /\ failure_total' = failure_total + 1
    /\ Return(c)
    /\ UNCHANGED <<log, now, analyzer_hosts, stubs, breakers, weight_map, active, success_total,
                   sink, last, hist, watch_vars, post_vars, thread_vars>>

\* the loop ends with every analyzer tried
IngestExhausted(c) ==
    /\ pc[c] = "loop"
    /\ ~loop_condition(c)
    /\ response' = [response EXCEPT ![c] =
           [status |-> 503, detail |-> "All analyzers are blocked by circuit breakers."]]
    /\ Return(c)
    /\ UNCHANGED <<log, now, analyzer_hosts, stubs, breakers, weight_map, active, success_total,
                   failure_total, sink, last, hist, watch_vars, post_vars, thread_vars>>

OnAck_as_admitted(c, t) ==
    /\ breakers' = [breakers EXCEPT ![t] =
           IF posted[c].sent /\ posted[c].breakers[t].state # breakers[t].state
           THEN breakers[t]
           ELSE record_success(breakers[t])]
    /\ success_total' = success_total + 1
    /\ response' = [response EXCEPT ![c] =
           [status |-> 200, accepted_by |-> t, count |-> packet[c]]]
    /\ log' = [log EXCEPT ![c] =
                 @ \o <<Event("Ack", t), Event("record_success", t),
                        Event("SUCCESS.inc", t)>>]
    /\ Return(c)
    /\ UNCHANGED failure_total

OnAck_uncounted(c, t) ==
    /\ breakers' = [breakers EXCEPT ![t] = record_success(breakers[t])]
    /\ response' = [response EXCEPT ![c] =
           [status |-> 200, accepted_by |-> t, count |-> packet[c]]]
    /\ log' = [log EXCEPT ![c] =
                 @ \o <<Event("Ack", t), Event("record_success", t),
                        Event("SUCCESS.inc", t)>>]
    /\ Return(c)
    /\ UNCHANGED <<success_total, failure_total>>

\* the Ack came back: record_success, SUCCESS.inc, return
OnAck(c, t) ==
    /\ breakers' = [breakers EXCEPT ![t] = record_success(breakers[t])]
    /\ success_total' = success_total + 1
    /\ response' = [response EXCEPT ![c] =
           [status |-> 200, accepted_by |-> t, count |-> packet[c]]]
    /\ log' = [log EXCEPT ![c] =
                 @ \o <<Event("Ack", t), Event("record_success", t),
                        Event("SUCCESS.inc", t)>>]
    /\ Return(c)
    /\ UNCHANGED failure_total

OnAioRpcError_unrecorded(c, t) ==
    /\ failure_total' = failure_total + 1
    /\ log' = [log EXCEPT ![c] =
                 @ \o <<Event("AioRpcError", t), Event("FAILURE.inc", t),
                        Event("record_failure", t)>>]
    /\ pc' = [pc EXCEPT ![c] = "loop"]
    /\ UNCHANGED <<breakers, success_total, response, packet, tried, target>>

OnAioRpcError_spreading(c, t) ==
    /\ failure_total' = failure_total + 1
    /\ breakers' = [n \in DOMAIN breakers |-> record_failure(breakers[n], now)]
    /\ log' = [log EXCEPT ![c] =
                 @ \o <<Event("AioRpcError", t), Event("FAILURE.inc", t),
                        Event("record_failure", t)>>]
    /\ pc' = [pc EXCEPT ![c] = "loop"]
    /\ UNCHANGED <<success_total, response, packet, tried, target>>

OnAioRpcError_retrying(c, t) ==
    /\ failure_total' = failure_total + 1
    /\ breakers' = [breakers EXCEPT ![t] = record_failure(breakers[t], now)]
    /\ log' = [log EXCEPT ![c] =
                 @ \o <<Event("AioRpcError", t), Event("FAILURE.inc", t),
                        Event("record_failure", t)>>]
    /\ pc' = [pc EXCEPT ![c] = "loop"]
    /\ tried' = [tried EXCEPT ![c] = @ \ {t}]
    /\ UNCHANGED <<success_total, response, packet, target>>

\* except AioRpcError: FAILURE.inc, record_failure, continue
OnAioRpcError(c, t) ==
    /\ failure_total' = failure_total + 1
    /\ breakers' = [breakers EXCEPT ![t] = record_failure(breakers[t], now)]
    /\ log' = [log EXCEPT ![c] =
                 @ \o <<Event("AioRpcError", t), Event("FAILURE.inc", t),
                        Event("record_failure", t)>>]
    /\ pc' = [pc EXCEPT ![c] = "loop"]
    /\ UNCHANGED <<success_total, response, packet, tried, target>>

\* the sink after the analyzer t has handled the request of call c
Logged(c, t, res) ==
    IF res.ok
    THEN [sink EXCEPT ![c] = @ \cup {[by |-> t, msgs |-> res.logged]}]
    ELSE sink

\* await stub.Analyze(...): the analyzer answered within the deadline, with
\* an Ack or with UNAVAILABLE
RpcAnswered(c) ==
    /\ pc[c] = "rpc"
    /\ LET t == target[c]
           res == Analyze(active[t], t, packet[c])
       IN  /\ sink' = Logged(c, t, res)
           /\ IF res.ok THEN OnAck(c, t) ELSE OnAioRpcError(c, t)
    /\ UNCHANGED <<now, analyzer_hosts, stubs, weight_map, active, last, hist,
                   watch_vars, post_vars, thread_vars>>

\* await stub.Analyze(...): no answer within the deadline (DEADLINE_EXCEEDED)
\* or no connection. The analyzer never saw the request (handled = FALSE) or
\* ran Analyze on it all the same, too late for the caller (handled = TRUE).
RpcFailed(c, handled) ==
    /\ pc[c] = "rpc"
    /\ LET t == target[c]
           res == Analyze(active[t], t, packet[c])
       IN  /\ sink' = IF handled THEN Logged(c, t, res) ELSE sink
           /\ OnAioRpcError(c, t)
    /\ UNCHANGED <<now, analyzer_hosts, stubs, weight_map, active, last, hist,
                   watch_vars, post_vars, thread_vars>>

Next ==
    \/ Tick
    \/ \E a \in DOMAIN active : \E doc \in AnalyzerDocs(a) : PollActive(a, doc)
    \/ \E c \in Calls : IngestStart(c, PacketSizes[c])
    \/ \E c \in Calls : IngestSelect(c)
    \/ \E c \in Calls : IngestExhausted(c)
    \/ \E c \in Calls : RpcAnswered(c)
    \/ \E c \in Calls : \E handled \in BOOLEAN : RpcFailed(c, handled)

Spec == Init /\ [][Next]_vars

-----------------------------------------------------------------------------
(* Config watcher: poll_weights_updates() in services/distributor/app/main.py *)

MaxWeight == 1

\* the weights a document of the store can carry
Weights == (-1)..MaxWeight

WeightMaps == UNION {[S -> Weights] : S \in SUBSET Names}

\* the documents {_id: "weights", values: {...}}, with or without the field
WeightDocs ==
    {[_id |-> "weights"]} \cup {[_id |-> "weights", values |-> W] : W \in WeightMaps}

\* WEIGHTS_COL.find_one({"_id": "weights"}): None, or the document
find_one(col) ==
    IF Len(col) = 0 THEN [found |-> FALSE] ELSE [found |-> TRUE, doc |-> col[1]]

\* the operator saves the weight document
SaveWeights(doc) ==
    /\ WEIGHTS_COL' = <<doc>>
    /\ UNCHANGED <<now, breakers, dispatch_vars, last, hist, DEFAULT_ANALYZER_TO_WEIGHTS,
                   watcher, polled, post_vars, thread_vars>>

\* the weight document is removed from the store
DropWeights ==
    /\ Len(WEIGHTS_COL) > 0
    /\ WEIGHTS_COL' = << >>
    /\ UNCHANGED <<now, breakers, dispatch_vars, last, hist, DEFAULT_ANALYZER_TO_WEIGHTS,
                   watcher, polled, post_vars, thread_vars>>

\* the watcher is a task of the event loop that runs ingest: it runs only
\* while every ingest call is suspended or over
yielded == \A c \in Calls : pc[c] # "loop"

poll_weights_stale ==
    /\ watcher = "polling"
    /\ yielded
    /\ LET mongo_result == find_one(WEIGHTS_COL)
       IN  polled' = IF mongo_result.found
                     THEN [read |-> "doc", doc |-> mongo_result.doc, was |-> weight_map]
                     ELSE [read |-> "missing", was |-> weight_map]
    /\ UNCHANGED <<now, analyzer_hosts, stubs, breakers, active, success_total, failure_total,
                   pc, packet, tried, target, response, sink, log, last, hist,
                   DEFAULT_ANALYZER_TO_WEIGHTS, WEIGHTS_COL, watcher, post_vars,
                   weight_map, thread_vars>>

\* one round of the loop of poll_weights_updates, find_one having returned
poll_weights_updates ==
    /\ watcher = "polling"
    /\ yielded
    /\ LET mongo_result == find_one(WEIGHTS_COL)
           current_weights_mapping ==
               IF mongo_result.found
               THEN get(mongo_result.doc, "values", << >>)
               ELSE DEFAULT_ANALYZER_TO_WEIGHTS
       IN  /\ weight_map' = update(weight_map, current_weights_mapping)
           /\ polled' = IF mongo_result.found
                         THEN [read |-> "doc", doc |-> mongo_result.doc, was |-> weight_map]
                         ELSE [read |-> "missing", was |-> weight_map]
    /\ UNCHANGED <<now, analyzer_hosts, stubs, breakers, active, success_total, failure_total,
                   pc, packet, tried, target, response, sink, log, last, hist,
                   DEFAULT_ANALYZER_TO_WEIGHTS, WEIGHTS_COL, watcher, post_vars,
                   thread_vars>>

\* one round of the loop in which find_one raises: nothing in the loop or
\* around the task catches the error, and the task ends with it
poll_weights_raises ==
    /\ watcher = "polling"
    /\ yielded
    /\ watcher' = "ended"
    /\ polled' = [read |-> "error", was |-> weight_map]
    /\ UNCHANGED <<now, breakers, dispatch_vars, last, hist, DEFAULT_ANALYZER_TO_WEIGHTS,
                   WEIGHTS_COL, post_vars, thread_vars>>

NextWatcher ==
    \/ \E doc \in WeightDocs : SaveWeights(doc)
    \/ DropWeights
    \/ poll_weights_updates
    \/ poll_weights_raises

InitWatcher ==
    \E cb \in DeployedConfigs : Startup(<<"A", "B">>, cb)

SpecWatcher == InitWatcher /\ [][NextWatcher]_vars

-----------------------------------------------------------------------------
(* POST /ingest: the body, its validation by the models LogMessage and        *)
(* LogPacket, and then ingest()                                               *)

MaxMessages == 2

\* the entries a body can list: a message, a message whose string is empty,
\* and one without its timestamp
Entries ==
    {[timestamp |-> "t", message |-> "m"],
     [timestamp |-> "t", message |-> ""],
     [message |-> "m"]}

\* the JSON bodies posted: with 0..MaxMessages entries, or without `messages`
Bodies ==
    {[source_id |-> "sim"]} \cup
    {[messages |-> ms] : ms \in UNION {[1..n -> Entries] : n \in 0..MaxMessages}}

\* class LogMessage: timestamp and message are required strings
LogMessage(m) ==
    {"timestamp", "message"} \subseteq DOMAIN m

\* class LogPacket: messages is a required list of LogMessage
LogPacket(body) ==
    /\ "messages" \in DOMAIN body
    /\ \A i \in 1..Len(body.messages) : LogMessage(body.messages[i])

\* the state a request meets on arrival
Met(body) ==
    [sent |-> TRUE, body |-> body, at |-> now, breakers |-> breakers,
     weight_map |-> weight_map, polled |-> polled, success_total |-> success_total,
     failure_total |-> failure_total]

\* POST /ingest with the given body: FastAPI answers 422 when the body does
\* not validate as a LogPacket, and calls ingest(packet) otherwise
PostIngest(c, body) ==
    /\ pc[c] = "idle"
    /\ posted' = [posted EXCEPT ![c] = Met(body)]
    /\ UNCHANGED calls
    /\ IF LogPacket(body)
       THEN ingest(c, Len(body.messages))
       ELSE /\ response' = [response EXCEPT ![c] =
                   [status |-> 422, detail |-> "validation error"]]
            /\ pc' = [pc EXCEPT ![c] = "done"]
            /\ UNCHANGED <<now, analyzer_hosts, stubs, breakers, weight_map, active,
                           success_total, failure_total, packet, tried, target,
                           sink, log, last, hist, watch_vars, thread_vars>>

\* one request, with any body, to a distributor started with any weights
NextPost ==
    \/ \E a \in DOMAIN active : \E doc \in AnalyzerDocs(a) : PollActive(a, doc)
    \/ \E body \in Bodies : PostIngest("c1", body)
    \/ IngestSelect("c1")
    \/ IngestExhausted("c1")
    \/ RpcAnswered("c1")

InitPost ==
    \E hosts \in HostConfigs, cb \in DeployedConfigs, defaults \in WeightMaps :
        StartupWith(hosts, cb, defaults)

SpecPost == InitPost /\ [][NextPost]_vars

-----------------------------------------------------------------------------
(* Properties of the breaker *)

\* the breaker the last direct call was made on, after the call
Post == breakers[last.name]

DidCall(op, state) ==
    /\ last.op = op
    /\ last.pre.state = state

\* C1: a CLOSED breaker opens exactly at the record_failure that is the
\* failure_threshold-th failure in a row: a record_failure on a CLOSED breaker
\* leaves it OPEN if the failures in a row now number failure_threshold and
\* CLOSED otherwise, no CLOSED breaker has failure_threshold failures in a row
\* behind it, and a record_success on a CLOSED breaker sets
\* consecutive_failures to 0.
C1_OpensAtThreshold ==
    /\ \A a \in DOMAIN breakers :
          breakers[a].state = CLOSED => hist[a].streak < breakers[a].failure_threshold
    /\ DidCall("record_failure", CLOSED) =>
          /\ Post.state \in {CLOSED, OPEN}
          /\ Post.state = OPEN <=> hist[last.name].streak = Post.failure_threshold
    /\ DidCall("record_success", CLOSED) =>
          /\ Post.state = CLOSED
          /\ Post.consecutive_failures = 0

\* a breaker with threshold 2 has just opened at its second failure in a row
C1_Witness ==
    /\ DidCall("record_failure", CLOSED)
    /\ Post.state = OPEN
    /\ Post.failure_threshold = 2
    /\ last.was.streak = 1

\* C2: allow_request on an OPEN breaker returns false and changes nothing while
\* now - opened_at < recovery_timeout; otherwise it returns true, makes the
\* breaker HALF_OPEN and sets half_open_successes to 0. It never returns true
\* on an OPEN breaker less than recovery_timeout after the breaker opened.
C2_Cooldown ==
    DidCall("allow_request", OPEN) =>
        /\ IF last.at - last.pre.opened_at < last.pre.recovery_timeout
           THEN last.ret = FALSE /\ Post = last.pre
           ELSE /\ last.ret = TRUE
                /\ Post.state = HALF_OPEN
                /\ Post.half_open_successes = 0
        /\ last.ret = TRUE => last.at - last.was.tripped_at >= last.pre.recovery_timeout

\* an OPEN breaker with a cooldown of 2 has just let the first probe through
C2_Witness ==
    /\ DidCall("allow_request", OPEN)
    /\ last.ret = TRUE
    /\ last.pre.recovery_timeout = 2
    /\ last.at - last.pre.opened_at = 2

\* C3: a HALF_OPEN breaker closes exactly at the record_success that is the
\* half_open_success_threshold-th since it became HALF_OPEN, and is then
\* CLOSED with both counters 0 and opened_at unset.
C3_ClosesAtThreshold ==
    /\ \A a \in DOMAIN breakers :
          breakers[a].state = HALF_OPEN =>
              hist[a].half_open_successes < breakers[a].half_open_success_threshold
    /\ DidCall("record_success", HALF_OPEN) =>
          /\ Post.state \in {HALF_OPEN, CLOSED}
          /\ Post.state = CLOSED <=>
                 hist[last.name].half_open_successes = Post.half_open_success_threshold
          /\ Post.state = CLOSED =>
                 /\ Post.consecutive_failures = 0
                 /\ Post.half_open_successes = 0
                 /\ Post.opened_at = None

\* a breaker with threshold 2 that carried a failure count into HALF_OPEN has
\* just closed at its second success
C3_Witness ==
    /\ DidCall("record_success", HALF_OPEN)
    /\ Post.state = CLOSED
    /\ Post.half_open_success_threshold = 2
    /\ last.pre.consecutive_failures > 0

\* C4: a record_failure on a HALF_OPEN breaker leaves it OPEN with opened_at
\* the time of the call and both counters 0.
C4_HalfOpenFailure ==
    DidCall("record_failure", HALF_OPEN) =>
        /\ Post.state = OPEN
        /\ Post.opened_at = last.at
        /\ Post.consecutive_failures = 0
        /\ Post.half_open_successes = 0

\* a HALF_OPEN breaker with failure_threshold 2 and one probe success behind it
\* has just failed once
C4_Witness ==
    /\ DidCall("record_failure", HALF_OPEN)
    /\ last.pre.failure_threshold = 2
    /\ last.pre.half_open_successes = 1
    /\ Post.state = OPEN

\* C22: constructing a breaker with failure_threshold <= 0, recovery_timeout
\* <= 0 or half_open_success_threshold <= 0 raises an error and yields no
\* breaker; with all three positive it yields a breaker that is CLOSED with
\* both counters 0 and opened_at unset, and whose allow_request() returns
\* true, also as the first call made on it.
C22_Construction ==
    /\ last.op = "__init__" =>
          IF \E i \in 1..3 : last.args[i] <= 0
          THEN /\ last.raised = "ValueError"
               /\ last.name \notin DOMAIN breakers
          ELSE /\ last.raised = "none"
               /\ last.name \in DOMAIN breakers
               /\ LET b == breakers[last.name]
                  IN  /\ b.state = CLOSED
                      /\ b.consecutive_failures = 0
                      /\ b.half_open_successes = 0
                      /\ b.opened_at = None
                      /\ <<b.failure_threshold, b.recovery_timeout,
                            b.half_open_success_threshold>> = last.args
                      /\ allow_request(b, now).ret = TRUE
    /\ (last.op = "allow_request" /\ last.pre = SimpleCircuitBreaker(last.name,
             last.pre.failure_threshold, last.pre.recovery_timeout,
             last.pre.half_open_success_threshold)) =>
          (last.ret = TRUE /\ breakers[last.name] = last.pre)

\* the constructor was called with recovery_timeout 0 and the other two
\* settings positive, after another breaker was constructed
C22_Witness ==
    /\ last.op = "__init__"
    /\ last.args[1] > 0 /\ last.args[2] = 0 /\ last.args[3] > 0
    /\ last.raised = "ValueError"
    /\ \E n \in DOMAIN breakers : breakers[n].recovery_timeout = 2

\* a thread's snapshot() has returned
Snapshotted(t) ==
    /\ threads[t].pc \in {"return", "acquire"}
    /\ Len(threads[t].got) = Len(fields)

\* C28: under any interleaving of allow_request, record_success,
\* record_failure and snapshot calls of several threads on one breaker,
\* every snapshot() returns the fields of a state the breaker had between
\* two complete calls during the snapshot, each complete call leaving the
\* breaker as it would when run alone; no snapshot has state OPEN with
\* opened_for_secs = -1, nor state CLOSED or OPEN with half_open_successes
\* > 0.
C28_Untorn ==
    \A t \in Threads :
        /\ Snapshotted(t) =>
              LET r == returned(threads[t].got)
              IN  /\ \E s \in threads[t].seen : \E at \in threads[t].entered..now :
                         r = snapshot(s, at)
                  /\ r.state = OPEN => r.opened_for_secs # -1
                  /\ r.state \in {CLOSED, OPEN} => r.half_open_successes = 0
        /\ (threads[t].pc = "writing" /\ threads[t].todo = << >>) =>
              breakers["A"] = alone(threads[t].op, threads[t].pre, threads[t].entered)

\* a snapshot() of the OPEN breaker has returned while the other thread,
\* whose record_success came in during the snapshot, waits to go on, after
\* some call had to make several assignments
C28_Witness ==
    \E t \in Threads, u \in Threads :
        /\ t # u
        /\ Snapshotted(t)
        /\ threads[t].op = "snapshot"
        /\ returned(threads[t].got).state = OPEN
        /\ returned(threads[t].got).opened_for_secs = 1
        /\ threads[u].op = "record_success"
        /\ threads[u].pc = "acquire"

\* the breaker after n more calls of record_failure at time t
RECURSIVE Failing(_, _, _)
Failing(b, n, t) ==
    IF n = 0 THEN b ELSE Failing(record_failure(b, t), n - 1, t)

\* some calls take the breaker b out of its state
Leaves(b) ==
    CASE b.state = CLOSED ->
             Failing(b, b.failure_threshold - b.consecutive_failures, now).state = OPEN
      [] b.state = OPEN ->
             allow_request(b, b.opened_at + b.recovery_timeout).self.state = HALF_OPEN
      [] b.state = HALF_OPEN ->
             record_failure(b, now).state = OPEN

\* the changes of state and the calls that make them
Moves ==
    {<<CLOSED, OPEN, "record_failure">>,
     <<OPEN, HALF_OPEN, "allow_request">>,
     <<HALF_OPEN, CLOSED, "record_success">>,
     <<HALF_OPEN, OPEN, "record_failure">>}

\* C23: whatever the sequence of allow_request, record_success,
\* record_failure, snapshot and GET /health, a breaker changes state only
\* from CLOSED to OPEN by record_failure, from OPEN to HALF_OPEN by
\* allow_request once the cooldown is over, from HALF_OPEN to CLOSED by
\* record_success and from HALF_OPEN to OPEN by record_failure; and from
\* every state some calls take it to another state.
C23_Transitions ==
    /\ [](\A a \in DOMAIN breakers : Leaves(breakers[a]))
    /\ [][\A a \in DOMAIN breakers :
             breakers'[a].state # breakers[a].state =>
                 /\ <<breakers[a].state, breakers'[a].state, last'.op>> \in Moves
                 /\ last'.name = a
                 /\ breakers'[a].state = HALF_OPEN =>
                        now - breakers[a].opened_at >= breakers[a].recovery_timeout]_vars

\* a breaker has gone round: it has just closed again after having been open
C23_Witness ==
    /\ DidCall("record_success", HALF_OPEN)
    /\ Post.state = CLOSED
    /\ last.was.tripped_at # None
    /\ Post.recovery_timeout = 2

\* C24: opened_at is set exactly when the breaker is OPEN: set in OPEN, unset
\* in CLOSED and in HALF_OPEN.
C24_OpenedAtIffOpen ==
    \A a \in DOMAIN breakers :
        breakers[a].opened_at # None <=> breakers[a].state = OPEN

\* C25: a CLOSED breaker has consecutive_failures < failure_threshold.
C25_ClosedBelowThreshold ==
    \A a \in DOMAIN breakers :
        breakers[a].state = CLOSED =>
            breakers[a].consecutive_failures < breakers[a].failure_threshold

\* a breaker that took as many failures as its threshold while it was OPEN
\* has just closed from HALF_OPEN
C25_Witness ==
    /\ DidCall("record_success", HALF_OPEN)
    /\ Post.state = CLOSED
    /\ last.pre.consecutive_failures >= Post.failure_threshold

\* C26: a HALF_OPEN breaker has half_open_successes <
\* half_open_success_threshold.
C26_HalfOpenBelowThreshold ==
    \A a \in DOMAIN breakers :
        breakers[a].state = HALF_OPEN =>
            breakers[a].half_open_successes < breakers[a].half_open_success_threshold

\* a HALF_OPEN breaker with threshold 2 has just recorded its first success,
\* in its second HALF_OPEN period
C26_Witness ==
    /\ DidCall("record_success", HALF_OPEN)
    /\ Post.state = HALF_OPEN
    /\ Post.half_open_successes = 1
    /\ Post.half_open_success_threshold = 2
    /\ Post.opened_at > 0

\* C27: record_failure and record_success on an OPEN breaker leave state,
\* consecutive_failures, half_open_successes and opened_at as they were.
C27_OpenIgnoresResults ==
    (DidCall("record_failure", OPEN) \/ DidCall("record_success", OPEN)) =>
        Post = last.pre

\* C30: snapshot() and GET /health change no breaker, nor the weight map, the
\* analyzer set or the counters; the snapshot of an OPEN breaker whose
\* cooldown has elapsed reports OPEN and the breaker stays OPEN.
C30_ReadOnly ==
    [][(now' = now /\ last'.op \in {"snapshot", "health"}) =>
          /\ UNCHANGED <<breakers, weight_map, analyzer_hosts, success_total,
                         failure_total>>
          /\ last'.op = "snapshot" =>
                /\ last'.ret = snapshot(breakers[last'.name], now)
                /\ last'.ret.state = breakers'[last'.name].state
          /\ last'.op = "health" =>
                /\ last'.ret.weights = weight_map
                /\ last'.ret.analyzers = analyzer_hosts
                /\ \A a \in DOMAIN breakers :
                       last'.ret.breakers[a].state = breakers'[a].state]_vars

\* a snapshot was taken of an OPEN breaker whose cooldown of 1 was over for a
\* tick, and the breaker is still OPEN
C30_Witness ==
    /\ DidCall("snapshot", OPEN)
    /\ last.ret.state = OPEN
    /\ last.ret.opened_for_secs = 2
    /\ last.pre.recovery_timeout = 1
    /\ Post.state = OPEN

-----------------------------------------------------------------------------
(* The analyzers called directly, while their flags are polled *)

\* one round of poll_active of the analyzer a
PollActiveRound(a, read) ==
    /\ active' = [active EXCEPT ![a] = poll_active(active[a], read)]
    /\ last' = [op |-> "poll_active", name |-> a, read |-> read, was |-> active[a]]
    /\ UNCHANGED <<now, analyzer_hosts, stubs, breakers, weight_map, success_total,
                   failure_total, pc, packet, tried, target, response, sink,
                   log, hist, watch_vars, post_vars, thread_vars>>

\* the request c, a packet of n messages, is sent to the analyzer a, which
\* runs Analyze on it
AnalyzeCall(c, a, n) ==
    /\ sink[c] = {}
    /\ LET res == Analyze(active[a], a, n)
       IN  /\ sink' = Logged(c, a, res)
           /\ last' = [op |-> "Analyze", name |-> a, call |-> c, n |-> n,
                       flag |-> active[a], res |-> res, before |-> sink[c]]
    /\ UNCHANGED <<now, analyzer_hosts, stubs, breakers, weight_map, active, success_total,
                   failure_total, pc, packet, tried, target, response,
                   log, hist, watch_vars, post_vars, thread_vars>>

NextAnalyzer ==
    \/ \E a \in DOMAIN active : \E read \in Reads(a) : PollActiveRound(a, read)
    \/ \E c \in Calls, a \in DOMAIN active, n \in 0..MaxMessages : AnalyzeCall(c, a, n)

\* two analyzers, started with active = True
InitAnalyzer ==
    \E cb \in DeployedConfigs : StartupWith(<<"A", "B">>, cb, << >>)

SpecAnalyzer == InitAnalyzer /\ [][NextAnalyzer]_vars

\* C21: an Analyze call made while the active flag is false fails with
\* UNAVAILABLE, logs nothing to the sink and returns no Ack; one made while
\* the flag is true logs every message of the packet and returns an Ack with
\* accepted = true whose note counts the messages of the packet. After a
\* round of poll_active that read no document, or one without the field
\* active, the flag is true.
C21_Gate ==
    /\ last.op = "Analyze" =>
          IF last.flag
          THEN /\ last.res.ok
               /\ last.res.ack.accepted = TRUE
               /\ last.res.ack.note = [name |-> last.name, accepted |-> last.n]
               /\ last.res.logged = last.n
               /\ sink[last.call] = last.before \cup {[by |-> last.name, msgs |-> last.n]}
          ELSE /\ ~last.res.ok
               /\ last.res.code = "UNAVAILABLE"
               /\ "ack" \notin DOMAIN last.res
               /\ last.res.logged = 0
               /\ sink[last.call] = last.before
    /\ (last.op = "poll_active" /\ ~last.read.raised
          /\ "active" \notin DOMAIN last.read.doc) =>
          active[last.name] = TRUE

\* a packet of 2 messages was refused by an analyzer switched off, after
\* the other request was taken by an analyzer switched on
C21_Witness ==
    /\ last.op = "Analyze"
    /\ ~last.flag
    /\ last.n = 2
    /\ sink[last.call] = {}
    /\ \E c \in Calls : \E r \in sink[c] : r.msgs = 1

\* C33: a breaker that is CLOSED or OPEN has half_open_successes = 0, and
\* every entry into HALF_OPEN starts the counter at 0, whatever an earlier
\* half-open episode counted.
C33_CounterOnlyHalfOpen ==
    /\ [](\A a \in DOMAIN breakers :
            breakers[a].state \in {CLOSED, OPEN} => breakers[a].half_open_successes = 0)
    /\ [][\A a \in DOMAIN breakers :
             (breakers[a].state # HALF_OPEN /\ breakers'[a].state = HALF_OPEN) =>
                 breakers'[a].half_open_successes = 0]_vars

\* a breaker enters HALF_OPEN for the second time, after an episode in which
\* it counted one success and then failed
C33_Witness ==
    /\ DidCall("allow_request", OPEN)
    /\ Post.state = HALF_OPEN
    /\ Post.half_open_successes = 0
    /\ last.was.half_open_successes = 1
    /\ Post.half_open_success_threshold = 2

-----------------------------------------------------------------------------
(* Properties of the dispatcher *)

Count(l, ev) ==
    Cardinality({i \in 1..Len(l) : l[i].ev = ev})

Has(l, ev, a) ==
    \E i \in 1..Len(l) : l[i] = Event(ev, a)

\* the targets call c selected, in order
Selected(c) ==
    SelectSeq(log[c], LAMBDA e : e.ev = "select")

\* C5: within one ingest call no analyzer is selected twice, and every
\* selected target is a configured analyzer.
C5_NoRetry ==
    \A c \in Calls :
        LET sel == Selected(c)
        IN  /\ \A i \in 1..Len(sel) : sel[i].a \in keys(analyzer_hosts)
            /\ \A i, j \in 1..Len(sel) : i # j => sel[i].a # sel[j].a

\* a call is on its second target while the breaker of its first target, which
\* it left OPEN, has since been promoted to HALF_OPEN by the other call
C5_Witness ==
    \E c \in Calls :
        /\ pc[c] = "rpc"
        /\ Len(Selected(c)) = 2
        /\ breakers[Selected(c)[1].a].state = HALF_OPEN
        /\ get(weight_map, Selected(c)[1].a, 0) = 0

\* C6: the step in which the Ack of the target reaches the ingest call applies
\* record_success once to the target's breaker and to no other, adds 1 to the
\* success counter and nothing to the failure counter, ends the call and
\* answers 200 with the target and the number of messages of the packet.
C6_Success ==
    [][\A c \in Calls :
          Count(log'[c], "Ack") > Count(log[c], "Ack") =>
              /\ breakers' = [breakers EXCEPT
                                ![target[c]] = record_success(breakers[target[c]])]
              /\ success_total' = success_total + 1
              /\ failure_total' = failure_total
              /\ pc'[c] = "done"
              /\ response'[c] = [status |-> 200, accepted_by |-> target[c],
                                 count |-> packet[c]]
              /\ Count(log'[c], "rpc") = Count(log[c], "rpc")
              /\ Count(log'[c], "record_success") = 1]_vars

\* a call has answered 200 for a packet of 2 messages after a probe of a
\* HALF_OPEN breaker
C6_Witness ==
    \E c \in Calls :
        /\ pc[c] = "done"
        /\ response[c].status = 200
        /\ response[c].count = 2
        /\ success_total = 1
        /\ breakers[response[c].accepted_by].state = HALF_OPEN
        /\ breakers[response[c].accepted_by].half_open_successes = 1

\* C7: the step in which an RPC error reaches the ingest call applies
\* record_failure once to the target's breaker and to no other, adds 1 to the
\* failure counter and nothing to the success counter, gives no answer and
\* leaves the call at the head of its loop with the target among the tried.
C7_Failure ==
    [][\A c \in Calls :
          Count(log'[c], "AioRpcError") > Count(log[c], "AioRpcError") =>
              /\ breakers' = [breakers EXCEPT
                                ![target[c]] = record_failure(breakers[target[c]], now)]
              /\ failure_total' = failure_total + 1
              /\ success_total' = success_total
              /\ pc'[c] = "loop"
              /\ response'[c] = NoResponse
              /\ tried'[c] = tried[c]
              /\ target[c] \in tried[c]
              /\ Count(log'[c], "record_failure") = Count(log[c], "record_failure") + 1]_vars

\* after a refusal by the admission gate of its first target, which tripped
\* that breaker, a call is trying its second target
C7_Witness ==
    \E c \in Calls :
        /\ pc[c] = "rpc"
        /\ \E a \in keys(analyzer_hosts) :
              /\ a # target[c]
              /\ Has(log[c], "AioRpcError", a)
              /\ ~active[a]
              /\ breakers[a].state = OPEN
        /\ failure_total = 1

\* C8: the step in which the breaker of the selected target denies the call
\* changes no breaker, no counter and no sink and sends nothing; and a call
\* never sends to, nor records a result for, a target that denied it.
C8_Denial ==
    [][\A c \in Calls :
          /\ Count(log'[c], "deny") > Count(log[c], "deny") =>
                /\ breakers' = breakers
                /\ success_total' = success_total
                /\ failure_total' = failure_total
                /\ sink' = sink
                /\ pc'[c] = "loop"
          /\ \A a \in keys(analyzer_hosts) :
                Has(log'[c], "deny", a) =>
                    /\ ~Has(log'[c], "rpc", a)
                    /\ ~Has(log'[c], "record_failure", a)
                    /\ ~Has(log'[c], "record_success", a)]_vars

\* a call was denied by an OPEN breaker whose cooldown has one more tick to go
C8_Witness ==
    \E c \in Calls : \E a \in keys(analyzer_hosts) :
        /\ Has(log[c], "deny", a)
        /\ breakers[a].state = OPEN
        /\ breakers[a].recovery_timeout = 2
        /\ now - breakers[a].opened_at = 1

\* C9: an ingest call to a non-empty analyzer set answers 200 or 503; 503 only
\* when each configured analyzer denied it or failed its attempt, and 200
\* exactly when an Ack reached it.
C9_OnlyExhaustion ==
    \A c \in Calls :
        (pc[c] = "done" /\ Len(analyzer_hosts) > 0) =>
            /\ response[c].status \in {200, 503}
            /\ response[c].status = 200 <=> Count(log[c], "Ack") = 1
            /\ response[c].status = 503 =>
                  \A a \in keys(analyzer_hosts) :
                      Has(log[c], "deny", a) \/ Has(log[c], "AioRpcError", a)

\* a call answered 503 after one analyzer denied it and the other failed
C9_Witness ==
    \E c \in Calls :
        /\ pc[c] = "done"
        /\ response[c].status = 503
        /\ Len(analyzer_hosts) = 2
        /\ Count(log[c], "deny") = 1
        /\ Count(log[c], "AioRpcError") = 1

\* C10: for every ingest call at most one analyzer runs Analyze on its packet
\* to completion, and when the call answers 200 that is the analyzer named in
\* accepted_by.
C10_ExactlyOne ==
    \A c \in Calls :
        /\ Cardinality({r.by : r \in sink[c]}) <= 1
        /\ response[c].status = 200 => {r.by : r \in sink[c]} = {response[c].accepted_by}

-----------------------------------------------------------------------------
(* Properties of the config watcher *)

\* C16: after a watcher tick that read a weight document, the weight map is
\* the document's values mapping: the same names with the same weights, and
\* no entry for any other name.
C16_MapIsDocument ==
    polled.read = "doc" => weight_map = get(polled.doc, "values", << >>)

\* C17: after a watcher tick that found no weight document, the weight map is
\* what it was before the tick.
C17_MissingKeepsMap ==
    polled.read = "missing" => weight_map = polled.was

\* C18: after a watcher tick whose read raised an error, the weight map is
\* what it was before the tick and the watcher is still polling.
C18_ReadErrorSurvived ==
    polled.read = "error" =>
        /\ weight_map = polled.was
        /\ watcher = "polling"

-----------------------------------------------------------------------------
(* Requests made one after the other by one client *)

MaxCalls == 10

\* a well-formed body with one message
OneMessage == [messages |-> <<[timestamp |-> "t", message |-> "m"]>>]

\* what the client keeps of an answered call: the answer, the analyzers an
\* RPC was sent to, and the state each breaker was left in
Outcome(c) ==
    [status |-> response[c].status,
     accepted_by |-> IF response[c].status = 200 THEN response[c].accepted_by ELSE "",
     rpcs |-> {a \in keys(analyzer_hosts) : Has(log[c], "rpc", a)},
     left |-> [a \in DOMAIN breakers |-> breakers[a].state]]

\* the client has its answer; its next request is a new call of ingest
Collect(c) ==
    /\ pc[c] = "done"
    /\ calls' = Append(calls, Outcome(c))
    /\ pc' = [pc EXCEPT ![c] = "idle"]
    /\ log' = [log EXCEPT ![c] = << >>]
    /\ response' = [response EXCEPT ![c] = NoResponse]
    /\ sink' = [sink EXCEPT ![c] = {}]
    /\ posted' = [posted EXCEPT ![c] = NoPost]
    /\ UNCHANGED <<now, analyzer_hosts, stubs, breakers, weight_map, active, success_total,
                   failure_total, packet, tried, target, last, hist, watch_vars,
                   thread_vars>>

\* the CB_* settings of the runs with a fixed environment
SteadyConfigs ==
    {[failure_threshold |-> 1, recovery_timeout |-> 2, half_open_success_threshold |-> 2],
     [failure_threshold |-> 2, recovery_timeout |-> 2, half_open_success_threshold |-> 1],
     [failure_threshold |-> 3, recovery_timeout |-> 1, half_open_success_threshold |-> 1]}

\* the admission gates are set before the first request and stay as they are;
\* every analyzer answers within the deadline
NextSteady ==
    \/ Tick
    \/ /\ Len(calls) = 0
       /\ pc["c1"] = "idle"
       /\ \E a \in DOMAIN active : \E doc \in AnalyzerDocs(a) : PollActive(a, doc)
    \/ /\ Len(calls) < MaxCalls
       /\ PostIngest("c1", OneMessage)
    \/ IngestSelect("c1")
    \/ IngestExhausted("c1")
    \/ RpcAnswered("c1")
    \/ Collect("c1")

InitSteady ==
    \E hosts \in {<<"A">>, <<"A", "B">>}, cb \in SteadyConfigs :
        StartupWith(hosts, cb, [n \in Names |-> IF n = "A" THEN 1 ELSE 0])

SpecSteady == InitSteady /\ [][NextSteady]_vars

\* the requests of a run in which the operator changes the configuration
\* in the store between and during the calls
MaxRequests == 4

\* the CB_* settings of these runs
LiveConfigs ==
    {[failure_threshold |-> 1, recovery_timeout |-> 1, half_open_success_threshold |-> 2],
     [failure_threshold |-> 1, recovery_timeout |-> 2, half_open_success_threshold |-> 2]}

\* the operator switches the admission gates ON and OFF at any time; every
\* analyzer answers within the deadline
NextRecovery ==
    \/ Tick
    \/ \E a \in DOMAIN active : \E doc \in AnalyzerDocs(a) : PollActive(a, doc)
    \/ /\ Len(calls) < MaxRequests
       /\ PostIngest("c1", OneMessage)
    \/ IngestSelect("c1")
    \/ IngestExhausted("c1")
    \/ RpcAnswered("c1")
    \/ Collect("c1")

InitRecovery ==
    \E hosts \in {<<"A">>, <<"A", "B">>}, cb \in LiveConfigs :
        StartupWith(hosts, cb, [n \in Names |-> IF n = "A" THEN 1 ELSE 0])

SpecRecovery == InitRecovery /\ [][NextRecovery]_vars

\* the weight documents the operator saves: each gives all the weight to one
\* analyzer
LiveDocs ==
    {[_id |-> "weights", values |-> [n \in Names |-> IF n = "A" THEN 0 ELSE 1]],
     [_id |-> "weights", values |-> [n \in Names |-> IF n = "A" THEN 1 ELSE 0]]}

\* the operator saves weight documents at any time; both analyzers are
\* healthy: their gates are ON and they answer within the deadline
NextReweigh ==
    \/ \E doc \in LiveDocs : SaveWeights(doc)
    \/ poll_weights_updates
    \/ /\ Len(calls) < MaxRequests
       /\ PostIngest("c1", OneMessage)
    \/ IngestSelect("c1")
    \/ RpcAnswered("c1")
    \/ Collect("c1")

InitReweigh ==
    \E cb \in LiveConfigs :
        StartupWith(<<"A", "B">>, cb, [n \in Names |-> IF n = "A" THEN 1 ELSE 0])

SpecReweigh == InitReweigh /\ [][NextReweigh]_vars

\* the gates the operator sets
GateDocs(a) == {[name |-> a, active |-> TRUE], [name |-> a, active |-> FALSE]}

\* two ingest calls that overlap in any way, while the clock advances, the
\* gates are switched, the weight is moved from A to B and the watcher ticks
NextOverlap ==
    \/ Tick
    \/ \E a \in DOMAIN active : \E doc \in GateDocs(a) : PollActive(a, doc)
    \/ \E doc \in {d \in LiveDocs : d.values["B"] = 1} : SaveWeights(doc)
    \/ poll_weights_updates
    \/ \E c \in Calls : IngestStart(c, PacketSizes[c])
    \/ \E c \in Calls : IngestSelect(c)
    \/ \E c \in Calls : IngestExhausted(c)
    \/ \E c \in Calls : RpcAnswered(c)
    \/ \E c \in Calls : RpcFailed(c, FALSE)

InitOverlap ==
    \E cb \in {[failure_threshold |-> 1, recovery_timeout |-> 1,
                 half_open_success_threshold |-> 1]} :
        StartupWith(<<"A", "B">>, cb, [n \in Names |-> IF n = "A" THEN 1 ELSE 0])

\* the event loop goes on with a call that can go on, and every RPC attempt
\* returns or errors within its deadline
Progress(c) ==
    /\ WF_vars(IngestSelect(c) \/ IngestExhausted(c))
    /\ WF_vars(RpcAnswered(c) \/ RpcFailed(c, FALSE))

SpecOverlap ==
    InitOverlap /\ [][NextOverlap]_vars /\ \A c \in Calls : Progress(c)

\* the result of the RPC of call c is recorded in this step, c having been
\* admitted by the CLOSED breaker of its target, which is HALF_OPEN by now
LateResult(c) ==
    /\ pc[c] = "rpc"
    /\ pc'[c] # "rpc"
    /\ posted[c].sent
    /\ posted[c].breakers[target[c]].state = CLOSED
    /\ breakers[target[c]].state = HALF_OPEN

\* C34: the result of an RPC that was admitted while the breaker was CLOSED
\* and is recorded when the breaker has tripped and been promoted to
\* HALF_OPEN counts as a probe result: a success adds 1 to
\* half_open_successes and closes the breaker when that reaches
\* half_open_success_threshold, a failure re-opens it at the time of the
\* recording.
C34_RecordedOnCurrentState ==
    [][\A c \in Calls :
          LateResult(c) =>
              LET b == breakers[target[c]]
                  b2 == breakers'[target[c]]
              IN  IF Count(log'[c], "Ack") > Count(log[c], "Ack")
                  THEN IF b.half_open_successes + 1 >= b.half_open_success_threshold
                       THEN /\ b2.state = CLOSED
                            /\ b2.opened_at = None
                       ELSE /\ b2.state = HALF_OPEN
                            /\ b2.half_open_successes = b.half_open_successes + 1
                  ELSE /\ b2.state = OPEN
                       /\ b2.opened_at = now]_vars

\* the breaker with threshold 1 is CLOSED again: the slow call, admitted
\* while it was CLOSED, was answered 200 after the breaker had tripped and
\* been promoted by the request of c2 that is still waiting for its answer,
\* so no call admitted in HALF_OPEN has succeeded
C34_Witness ==
    /\ pc["c1"] = "done"
    /\ response["c1"].status = 200
    /\ posted["c1"].breakers["A"].state = CLOSED
    /\ pc["c2"] = "rpc"
    /\ posted["c2"].breakers["A"].state = OPEN
    /\ breakers["A"].state = CLOSED
    /\ breakers["A"].half_open_success_threshold = 1
    /\ \A i \in 1..Len(calls) : calls[i].status = 503

\* the breaker of a is OPEN and its cooldown ends within the time modelled
OpenFor(a) ==
    /\ breakers[a].state = OPEN
    /\ breakers[a].opened_at + breakers[a].recovery_timeout <= MaxTime

\* a breaker leaves OPEN only for HALF_OPEN, once its cooldown is over, in
\* the step that sends a probe RPC to its analyzer
ProbeSent ==
    [][\A a \in DOMAIN breakers :
          (breakers[a].state = OPEN /\ breakers'[a].state # OPEN) =>
              /\ breakers'[a].state = HALF_OPEN
              /\ now - breakers[a].opened_at >= breakers[a].recovery_timeout
              /\ \E c \in Calls : pc'[c] = "rpc" /\ target'[c] = a]_vars

\* C31 as stated: while requests keep arriving, under fair scheduling and
\* fair selection, the OPEN breaker of every configured analyzer leaves OPEN
\* some time after its cooldown, by a promotion to HALF_OPEN with a probe
\* RPC.
C31_AlwaysProbed ==
    /\ ProbeSent
    /\ \A a \in Names : OpenFor(a) ~> (breakers[a].state # OPEN)

\* C31: while requests keep arriving, under fair scheduling and fair
\* selection, the OPEN breaker of every configured analyzer whose weight is
\* positive leaves OPEN some time after its cooldown, by a promotion to
\* HALF_OPEN with a probe RPC.
C31_ProbedWhenWeighted ==
    /\ ProbeSent
    /\ \A a \in Names :
          (OpenFor(a) /\ get(weight_map, a, 0) > 0) ~> (breakers[a].state # OPEN)

\* the breaker of A, whose weight is positive, has been promoted to
\* HALF_OPEN and the probe RPC is on its way, in a later request than the
\* one that tripped it
C31_Witness ==
    /\ breakers["A"].state = HALF_OPEN
    /\ get(weight_map, "A", 0) > 0
    /\ pc["c1"] = "rpc"
    /\ target["c1"] = "A"
    /\ Selected("c1") = <<Event("select", "A")>>

\* how often the calls of S did ev, all together
RECURSIVE Total(_, _)
Total(S, ev) ==
    IF S = {}
    THEN 0
    ELSE LET c == CHOOSE x \in S : TRUE
         IN  Count(log[c], ev) + Total(S \ {c}, ev)

\* C32: at any time, with the calls overlapping in any way, the success
\* counter is the number of calls answered 200 and the failure counter is
\* the number of RPC attempts that ended in an RPC error; a call adds at
\* most 1 to the success counter and at most as many as there are
\* configured analyzers to the failure counter; denials and 503 answers add
\* to neither.
C32_Counters ==
    /\ success_total = Cardinality({c \in Calls : response[c].status = 200})
    /\ success_total = Total(Calls, "SUCCESS.inc")
    /\ failure_total = Total(Calls, "AioRpcError")
    /\ failure_total = Total(Calls, "FAILURE.inc")
    /\ \A c \in Calls :
          /\ Count(log[c], "SUCCESS.inc") <= 1
          /\ Count(log[c], "FAILURE.inc") <= Len(analyzer_hosts)
          /\ Count(log[c], "FAILURE.inc") + Count(log[c], "deny") <= Len(analyzer_hosts)

\* both calls are over: one was denied by a breaker and then answered 200,
\* the other answered 503 after RPC errors on both analyzers
C32_Witness ==
    \E c \in Calls, d \in Calls :
        /\ pc[c] = "done" /\ pc[d] = "done"
        /\ response[c].status = 200
        /\ Count(log[c], "deny") = 1
        /\ response[d].status = 503
        /\ Count(log[d], "AioRpcError") = 2
        /\ success_total = 1
        /\ failure_total = 2

\* C35: analyzer hosts, breakers and stubs have the same names, and none of
\* the three sets ever changes; a step changes at most one breaker, by one
\* of allow_request, record_success and record_failure, and it is the
\* breaker of an analyzer that the ingest call making the step has selected
\* as a target.
C35_Independent ==
    /\ [](/\ DOMAIN breakers = keys(analyzer_hosts)
          /\ DOMAIN stubs = keys(analyzer_hosts))
    /\ [][/\ analyzer_hosts' = analyzer_hosts
          /\ DOMAIN breakers' = DOMAIN breakers
          /\ stubs' = stubs
          /\ \A a \in DOMAIN breakers :
                breakers'[a] # breakers[a] =>
                   /\ \A b \in DOMAIN breakers \ {a} : breakers'[b] = breakers[b]
                   /\ breakers'[a] \in {allow_request(breakers[a], now).self,
                                        record_success(breakers[a]),
                                        record_failure(breakers[a], now)}
                   /\ \E c \in Calls :
                         /\ log'[c] # log[c]
                         /\ Has(log'[c], "select", a)]_vars

\* the first call has selected B alone and its RPC error has opened B's
\* breaker, while A's breaker is as it was constructed
C35_Witness ==
    \E c \in Calls :
        /\ pc[c] = "loop"
        /\ Selected(c) = <<Event("select", "B")>>
        /\ \A d \in Calls \ {c} : pc[d] = "idle"
        /\ breakers["B"].state = OPEN
        /\ breakers["A"].state = CLOSED
        /\ breakers["A"].consecutive_failures = 0
        /\ breakers["A"].opened_at = None

-----------------------------------------------------------------------------
(* A slow call next to a client that keeps posting *)

\* the CB_* settings of the runs with a slow call
LateConfigs ==
    {[failure_threshold |-> 1, recovery_timeout |-> 1, half_open_success_threshold |-> 1],
     [failure_threshold |-> 1, recovery_timeout |-> 1, half_open_success_threshold |-> 2]}

\* one analyzer; the call c1 is posted once and its RPC may take long, the
\* client c2 posts one request after the other. A coroutine runs up to its
\* await before another one starts or resumes.
NextLate ==
    \/ Tick
    \/ /\ yielded
       /\ ~posted["c1"].sent
       /\ PostIngest("c1", OneMessage)
    \/ /\ yielded
       /\ Len(calls) < MaxRequests
       /\ PostIngest("c2", OneMessage)
    \/ \E c \in Calls : IngestSelect(c)
    \/ \E c \in Calls : IngestExhausted(c)
    \/ \E c \in Calls : yielded /\ RpcAnswered(c)
    \/ \E c \in Calls : yielded /\ RpcFailed(c, FALSE)
    \/ Collect("c2")

InitLate ==
    \E cb \in LateConfigs : StartupWith(<<"A">>, cb, << >>)

SpecLate == InitLate /\ [][NextLate]_vars

-----------------------------------------------------------------------------
(* A client that posts for ever *)

\* the client has its answer and posts its next request; what the call did
\* is forgotten, and the counters, which no step of the dispatcher reads,
\* count from 0 again
Forget(c) ==
    /\ pc[c] = "done"
    /\ pc' = [pc EXCEPT ![c] = "idle"]
    /\ log' = [log EXCEPT ![c] = << >>]
    /\ response' = [response EXCEPT ![c] = NoResponse]
    /\ sink' = [sink EXCEPT ![c] = {}]
    /\ success_total' = 0
    /\ failure_total' = 0
    /\ UNCHANGED <<now, analyzer_hosts, stubs, breakers, weight_map, active, packet,
                   tried, target, last, hist, watch_vars, post_vars, thread_vars>>

\* the round of the loop in which random.choices returns t
SelectTarget(c, t) ==
    /\ IngestSelect(c)
    /\ target'[c] = t

\* the weights the distributor runs with: both analyzers weighted, or all
\* the weight on B
ProbeWeights ==
    {[n \in Names |-> 1], [n \in Names |-> IF n = "B" THEN 1 ELSE 0]}

\* requests keep arriving from one client while the clock advances and the
\* gates of the analyzers are switched
NextProbe ==
    \/ Tick
    \/ \E a \in DOMAIN active : \E doc \in GateDocs(a) : PollActive(a, doc)
    \/ IngestStart("c1", PacketSizes["c1"])
    \/ \E t \in Names : SelectTarget("c1", t)
    \/ IngestExhausted("c1")
    \/ RpcAnswered("c1")
    \/ Forget("c1")

InitProbe ==
    \E cb \in {[failure_threshold |-> 1, recovery_timeout |-> 1,
                 half_open_success_threshold |-> 1]}, defaults \in ProbeWeights :
        StartupWith(<<"A", "B">>, cb, defaults)

\* the clock advances, requests keep arriving, the event loop goes on with
\* the call, every RPC is answered, and a target that random.choices can
\* return again and again is returned again and again
FairProbe ==
    /\ WF_vars(Tick)
    /\ WF_vars(IngestStart("c1", PacketSizes["c1"]))
    /\ WF_vars(Forget("c1"))
    /\ WF_vars(IngestSelect("c1") \/ IngestExhausted("c1"))
    /\ WF_vars(RpcAnswered("c1"))
    /\ \A t \in Names : SF_vars(SelectTarget("c1", t))

SpecProbe == InitProbe /\ [][NextProbe]_vars /\ FairProbe

-----------------------------------------------------------------------------
(* Properties of the requests made one after the other *)

\* C29: with the event loop going on with every call and every RPC attempt
\* returning or failing within its deadline, every ingest call that has
\* started ends with the answer 200 or 503, and at any time it has made at
\* most as many selections and at most as many RPC attempts as there are
\* configured analyzers, whatever the other call, the gates, the clock and
\* the weight updates do meanwhile.
C29_Terminates ==
    /\ [](\A c \in Calls :
            /\ Count(log[c], "select") <= Len(analyzer_hosts)
            /\ Count(log[c], "rpc") <= Len(analyzer_hosts))
    /\ \A c \in Calls :
          (pc[c] \in {"loop", "rpc"}) ~>
              (pc[c] = "done" /\ response[c].status \in {200, 503})

\* a call has ended with 503 after an RPC attempt on each of the two
\* analyzers, while the weight map was changed by the watcher and the other
\* call was answered 200
C29_Witness ==
    \E c \in Calls, d \in Calls :
        /\ pc[c] = "done"
        /\ response[c].status = 503
        /\ Count(log[c], "rpc") = 2
        /\ response[d].status = 200
        /\ polled.read = "doc"
        /\ polled.was # weight_map


\* the breaker denies at time t
Blocked(b, t) ==
    b.state = OPEN /\ t - b.opened_at < b.recovery_timeout

\* C11: a call that met every configured analyzer's breaker OPEN, the
\* cooldown of none of them over when it is answered, is answered 503, has
\* sent no RPC, and has left every breaker and both counters as it met them.
C11_AllBlocked ==
    \A c \in Calls :
        (/\ pc[c] = "done"
         /\ posted[c].sent
         /\ \A a \in keys(analyzer_hosts) : Blocked(posted[c].breakers[a], now)) =>
            /\ response[c].status = 503
            /\ Count(log[c], "rpc") = 0
            /\ breakers = posted[c].breakers
            /\ success_total = posted[c].success_total
            /\ failure_total = posted[c].failure_total

\* two analyzers, both OPEN since different times, have each denied a call,
\* which is answered 503 one tick before the older cooldown is over
C11_Witness ==
    \E c \in Calls :
        /\ pc[c] = "done"
        /\ posted[c].sent
        /\ Len(analyzer_hosts) = 2
        /\ \A a \in keys(analyzer_hosts) : Blocked(posted[c].breakers[a], now)
        /\ Count(log[c], "deny") = 2
        /\ \E a \in keys(analyzer_hosts) : now - breakers[a].opened_at = 1
        /\ response[c].status = 503
        /\ failure_total > 0

\* C12: analyzers A and B with weights {A: 1, B: 0} and failure_threshold 2,
\* A refusing every call and B acking every call, all calls made one after
\* the other in less than recovery_timeout: every call is answered 200 by B;
\* an RPC goes to A in the first and the second call and in no later one; A
\* is CLOSED after the first call and OPEN after the second and every later
\* one, and B is CLOSED throughout.
C12_Scenario ==
    /\ analyzer_hosts = <<"A", "B">>
    /\ weight_map = [n \in Names |-> IF n = "A" THEN 1 ELSE 0]
    /\ ~active["A"]
    /\ active["B"]
    /\ breakers["A"].failure_threshold = 2
    /\ now < breakers["A"].recovery_timeout

C12_FallsBackToB ==
    C12_Scenario =>
        \A i \in 1..Len(calls) :
            /\ calls[i].status = 200
            /\ calls[i].accepted_by = "B"
            /\ "A" \in calls[i].rpcs <=> i <= 2
            /\ calls[i].left["A"] = IF i >= 2 THEN OPEN ELSE CLOSED
            /\ calls[i].left["B"] = CLOSED

\* the tenth call has been answered, a tick after A opened
C12_Witness ==
    /\ C12_Scenario
    /\ Len(calls) = 10
    /\ now - breakers["A"].opened_at = 1
    /\ breakers["A"].state = OPEN
    /\ breakers["B"].state = CLOSED
    /\ success_total = 10
    /\ failure_total = 2

\* the first three calls to a single analyzer A whose admission gate is OFF,
\* failure_threshold being 3: each is answered 503 after one RPC to A, which
\* is refused and recorded as a failure of A's breaker; the breaker is CLOSED
\* after the first and the second call and OPEN after the third
C14_Scenario ==
    /\ analyzer_hosts = <<"A">>
    /\ ~active["A"]
    /\ breakers["A"].failure_threshold = 3

C14_FirstThree ==
    /\ \A i \in 1..Len(calls) :
          i <= 3 =>
              /\ calls[i].status = 503
              /\ calls[i].rpcs = {"A"}
              /\ calls[i].left["A"] = IF i = 3 THEN OPEN ELSE CLOSED
    /\ (pc["c1"] = "idle" /\ Len(calls) < 3) =>
          /\ breakers["A"].consecutive_failures = Len(calls)
          /\ failure_total = Len(calls)
    /\ (pc["c1"] = "idle" /\ Len(calls) = 3) =>
          /\ breakers["A"].state = OPEN
          /\ failure_total = 3

\* the fourth call has been answered
C14_FourthAnswered ==
    /\ Len(calls) = 3
    /\ pc["c1"] = "done"
    /\ posted["c1"].sent

\* C14, as stated: with a single analyzer A whose gate is OFF and
\* failure_threshold 3, the first three calls are as above, and the fourth is
\* answered 503 with A OPEN and without any RPC to A.
C14_FourthNeverCalls ==
    C14_Scenario =>
        /\ C14_FirstThree
        /\ C14_FourthAnswered =>
              /\ response["c1"].status = 503
              /\ breakers["A"].state = OPEN
              /\ Count(log["c1"], "rpc") = 0

\* C14, amended: the fourth call is answered 503 with A OPEN; it sends no RPC
\* to A and leaves the breaker as it met it if A's cooldown is not over when
\* it is answered, and it sends one RPC to A, the probe, which is refused and
\* opens the breaker anew, if the cooldown was over when it arrived.
C14_GateOff ==
    C14_Scenario =>
        /\ C14_FirstThree
        /\ C14_FourthAnswered =>
              /\ response["c1"].status = 503
              /\ breakers["A"].state = OPEN
              /\ Blocked(posted["c1"].breakers["A"], now) =>
                    /\ Count(log["c1"], "rpc") = 0
                    /\ breakers = posted["c1"].breakers
              /\ ~Blocked(posted["c1"].breakers["A"], posted["c1"].at) =>
                    /\ Count(log["c1"], "rpc") = 1
                    /\ Has(log["c1"], "record_failure", "A")
                    /\ breakers["A"].opened_at >= posted["c1"].at
                    /\ failure_total = 4

\* the fourth call, made in the tick in which the third opened the breaker,
\* was denied and answered 503
C14_Witness ==
    /\ C14_Scenario
    /\ C14_FourthAnswered
    /\ now = 1
    /\ Blocked(posted["c1"].breakers["A"], now)
    /\ Has(log["c1"], "deny", "A")
    /\ response["c1"].status = 503
    /\ failure_total = 3

\* C13: a single analyzer A, failure_threshold 1, half_open_success_threshold
\* 2. A call that met A CLOSED and whose RPC failed is answered 503 and leaves
\* A OPEN. A call answered before the cooldown is over is answered 503 without
\* an RPC and leaves the breaker as it met it. A call that arrives when the
\* cooldown is over sends one RPC to A; if A acks it is answered 200 and
\* leaves A HALF_OPEN with one success. The call after it sends one RPC to A;
\* if A acks it is answered 200 and leaves A CLOSED, both counters 0 and
\* opened_at unset.
C13_Scenario ==
    /\ analyzer_hosts = <<"A">>
    /\ breakers["A"].failure_threshold = 1
    /\ breakers["A"].half_open_success_threshold = 2

C13_Recovery ==
    (C13_Scenario /\ pc["c1"] = "done" /\ posted["c1"].sent) =>
        LET met == posted["c1"].breakers["A"]
            left == breakers["A"]
            acked == Has(log["c1"], "Ack", "A")
        IN  /\ (met.state = CLOSED /\ Has(log["c1"], "AioRpcError", "A")) =>
                  /\ response["c1"].status = 503
                  /\ left.state = OPEN
            /\ Blocked(met, now) =>
                  /\ response["c1"].status = 503
                  /\ Count(log["c1"], "rpc") = 0
                  /\ left = met
            /\ (met.state = OPEN /\ ~Blocked(met, posted["c1"].at)) =>
                  /\ Count(log["c1"], "rpc") = 1
                  /\ acked =>
                        /\ response["c1"].status = 200
                        /\ left.state = HALF_OPEN
                        /\ left.half_open_successes = 1
            /\ (met.state = HALF_OPEN /\ met.half_open_successes = 1) =>
                  /\ Count(log["c1"], "rpc") = 1
                  /\ acked =>
                        /\ response["c1"].status = 200
                        /\ left.state = CLOSED
                        /\ left.consecutive_failures = 0
                        /\ left.half_open_successes = 0
                        /\ left.opened_at = None

\* the fourth call of the run: the first failed and opened A, the second was
\* refused 503 without an RPC, the third, after a cooldown of 2, was acked
\* and left A HALF_OPEN, and this one was acked and has closed A
C13_Witness ==
    /\ C13_Scenario
    /\ breakers["A"].recovery_timeout = 2
    /\ Len(calls) = 3
    /\ calls[1].rpcs = {"A"} /\ calls[1].status = 503 /\ calls[1].left["A"] = OPEN
    /\ calls[2].rpcs = {} /\ calls[2].status = 503 /\ calls[2].left["A"] = OPEN
    /\ calls[3].status = 200 /\ calls[3].left["A"] = HALF_OPEN
    /\ pc["c1"] = "done"
    /\ response["c1"].status = 200
    /\ posted["c1"].breakers["A"].state = HALF_OPEN
    /\ breakers["A"].state = CLOSED

\* C15: analyzers A and B, both healthy. A call that met both breakers CLOSED
\* and the weight map {A: 1, B: 0} selects A first and is answered 200 by A.
\* A watcher tick that reads the document {A: 0, B: 1} leaves the weight map
\* {A: 0, B: 1}, and a call that arrives after such a tick, the last before
\* it, and met both breakers CLOSED selects B first, never selects A, and is
\* answered 200 by B.
AllTo(a) == [n \in Names |-> IF n = a THEN 1 ELSE 0]

C15_Reweigh ==
    /\ (polled.read = "doc" /\ get(polled.doc, "values", << >>) = AllTo("B")) =>
          weight_map = AllTo("B")
    /\ (/\ analyzer_hosts = <<"A", "B">>
        /\ pc["c1"] = "done"
        /\ posted["c1"].sent
        /\ \A a \in Names : posted["c1"].breakers[a].state = CLOSED
        /\ Count(log["c1"], "AioRpcError") = 0) =>
          /\ posted["c1"].weight_map = AllTo("A") =>
                /\ log["c1"][1] = Event("select", "A")
                /\ response["c1"] = [status |-> 200, accepted_by |-> "A", count |-> 1]
          /\ (/\ posted["c1"].polled.read = "doc"
              /\ get(posted["c1"].polled.doc, "values", << >>) = AllTo("B")) =>
                /\ log["c1"][1] = Event("select", "B")
                /\ ~Has(log["c1"], "select", "A")
                /\ response["c1"] = [status |-> 200, accepted_by |-> "B", count |-> 1]

\* the call before this one went to A; the document was then saved as
\* {A: 0, B: 1}, the watcher ticked, and this call went to B
C15_Witness ==
    /\ Len(calls) > 0
    /\ calls[Len(calls)].accepted_by = "A"
    /\ pc["c1"] = "done"
    /\ posted["c1"].sent
    /\ posted["c1"].polled.read = "doc"
    /\ posted["c1"].polled.was = AllTo("A")
    /\ posted["c1"].weight_map = AllTo("B")
    /\ response["c1"].status = 200
    /\ response["c1"].accepted_by = "B"

-----------------------------------------------------------------------------
(* Properties of the selector and of the request validation *)

max(a, b) == IF a >= b THEN a ELSE b

\* the candidates of positive weight, a missing weight counting as 0
Positive(candidates, W) ==
    {candidates[i] : i \in {j \in 1..Len(candidates) : max(0, get(W, candidates[j], 0)) > 0}}

\* C19: whenever a call is about to select among its remaining candidates,
\* the targets the selector can return are exactly the candidates of positive
\* weight if there is one, and all the candidates otherwise; each is a
\* candidate.
C19_Support ==
    \A c \in Calls :
        (pc[c] = "loop" /\ loop_condition(c)) =>
            LET candidates == remaining(analyzer_hosts, tried[c])
                choice == weighted_analyzer_choice(candidates, weight_map)
            IN  /\ choice \subseteq keys(candidates)
                /\ choice = IF Positive(candidates, weight_map) # {}
                            THEN Positive(candidates, weight_map)
                            ELSE keys(candidates)

\* C20: a request whose messages sequence is empty or holds a message with an
\* empty string is answered 4xx at once: it selects no analyzer, makes no
\* RPC, and leaves the breakers and both counters as it met them.
EmptyBody(body) ==
    /\ LogPacket(body)
    /\ \/ Len(body.messages) = 0
       \/ \E i \in 1..Len(body.messages) : body.messages[i].message = ""

C20_EmptyRejected ==
    \A c \in Calls :
        (posted[c].sent /\ EmptyBody(posted[c].body)) =>
            /\ pc[c] = "done"
            /\ response[c].status \in 400..499
            /\ log[c] = << >>
            /\ breakers = posted[c].breakers
            /\ success_total = posted[c].success_total
            /\ failure_total = posted[c].failure_total

====
